---- MODULE Spec2Model ----
(***************************************************************************)
(* Project Chimera: Planner-Worker-Judge orchestration scaffold.           *)
(*                                                                         *)
(* Components modelled:                                                    *)
(*   - LangGraphStateMachine (orchestration/langgraph_state.py)            *)
(*   - JudgeAgent            (agents/judge.py)                             *)
(*   - MCPClient             (mcp/mcp_client.py)                           *)
(*                                                                         *)
(* Confidence values are fixed-point integers in ten-thousandths          *)
(* (0.90 is 9000, 0.9001 is 9001, 1.0 is 10000).                           *)
(***************************************************************************)
EXTENDS Integers, Sequences, FiniteSets, TLC

VARIABLES
    current_state,   \* LangGraphStateMachine.current_state
    state_history,   \* LangGraphStateMachine.state_history
    context,         \* the workflow context dict handed to the last state machine call
    sm_call,         \* outcome of the last state machine call (returned / raised ValueError)
    decision,        \* the dict returned by the last JudgeAgent.assess_content call
    routed,          \* the HITL routing of the last confidence value routed
    mcp_call,        \* arguments and environment of the last MCPClient.call_tool call
    mcp_result,      \* what the last MCPClient.call_tool call returned
    calc,            \* the last JudgeAgent.calculate_confidence call and its result
    writers,         \* per concurrent writer: its last get_session / save_session call
    plan_call,       \* the last PlannerAgent call and its result
    worker_call,     \* the last WorkerAgent call, the server behind it and its result
    guidelines_given, \* the guidelines argument of the last assess_content call
    returned_context, \* the context dict the last state machine call returned
    retryable_errors, \* MCPClient.retryable_errors, set by the constructor
    retry_policy,     \* WorkerAgent.retry_policy, set by the constructor
    review_call       \* the last save_review / get_review calls and their outcome

vars == <<current_state, state_history, context, sm_call, decision, routed, mcp_call, mcp_result,
          calc, writers, plan_call, worker_call, guidelines_given,
          returned_context, retryable_errors, retry_policy, review_call>>

sm_vars == <<current_state, state_history, context, sm_call, returned_context>>
judge_vars == <<decision, routed, calc, guidelines_given>>
mcp_vars == <<mcp_call, mcp_result, retryable_errors>>
persistence_vars == <<writers, review_call>>
planner_vars == <<plan_call>>
worker_vars == <<worker_call, retry_policy>>
ext_vars == <<persistence_vars, planner_vars, worker_vars>>

Range(s) == {s[i] : i \in 1..Len(s)}

----------------------------------------------------------------------------
(* Bounds *)

MaxHistory == 4      \* accepted transitions explored per run
MaxQueue == 2        \* longest task_queue a caller passes in the context
MaxScript == 4       \* longest scripted sequence of tool outcomes
MaxVersion == 2      \* highest session version a writer holds
MaxClock == 3        \* latest clock reading at a get_review call

----------------------------------------------------------------------------
(* orchestration/langgraph_state.py *)

INIT == "init"
EXECUTE_TASK == "execute_task"
EVALUATE_RESULT == "evaluate_result"

StateType == {INIT, EXECUTE_TASK, EVALUATE_RESULT}

\* States the design names but the StateType enum does not have; a caller can
\* only request them as foreign values.
AWAITING_REVIEW == "awaiting_review"
COMPLETE == "complete"
FAILED == "failed"

RequestableStates == StateType \cup {AWAITING_REVIEW, COMPLETE, FAILED}

_define_transitions ==
    [s \in StateType |->
        CASE s = INIT -> <<EXECUTE_TASK>>
          [] s = EXECUTE_TASK -> <<EVALUATE_RESULT, EXECUTE_TASK>>
          [] s = EVALUATE_RESULT -> <<EXECUTE_TASK, INIT>>]

transition_rules == _define_transitions

\* Judge verdicts a caller may place in context["judge_result"]
\* (one per HITL tier, plus none yet).
NoJudgeResult == [confidence |-> -1, approved |-> FALSE, requires_human_review |-> FALSE]

JudgeResults ==
    { NoJudgeResult,
      [confidence |-> 9500, approved |-> TRUE,  requires_human_review |-> FALSE],
      [confidence |-> 7500, approved |-> FALSE, requires_human_review |-> TRUE],
      [confidence |-> 3000, approved |-> FALSE, requires_human_review |-> FALSE] }

\* WorkerResult statuses a caller may place in context["current_result"].
ResultStatuses == {"none", "success", "failure", "timeout"}

TaskQueues == { [i \in 1..n |-> i] : n \in 0..MaxQueue }

\* A task-level retry is requested for a task that failed or timed out and that
\* the Judge has not seen yet; every other context carries no retry request.
Contexts ==
    [task_queue : TaskQueues, current_result : ResultStatuses, judge_result : JudgeResults,
     retry_requested : {FALSE}]
    \cup [task_queue : TaskQueues, current_result : {"failure", "timeout"},
          judge_result : {NoJudgeResult}, retry_requested : {TRUE}]

\* Nothing returned: the call raised, or no call was made yet.
NoContext ==
    [task_queue |-> <<>>, current_result |-> "-", judge_result |-> NoJudgeResult,
     retry_requested |-> FALSE]

NoMessage == [current |-> "-", requested |-> "-", allowed |-> <<>>]

Returned(op, from, requested) ==
    [op |-> op, from |-> from, requested |-> requested, raised |-> FALSE, message |-> NoMessage]

\* raise ValueError(f"Invalid transition: {current_state} -> {next_state}. Allowed: {rules}")
RaisedValueError(from, requested) ==
    [op |-> "transition", from |-> from, requested |-> requested, raised |-> TRUE,
     message |-> [current |-> from, requested |-> requested, allowed |-> transition_rules[from]]]

state_init(ctx) ==
    /\ context' = ctx
    /\ sm_call' = Returned("state_init", current_state, "-")
    /\ returned_context' = ctx
    /\ UNCHANGED <<current_state, state_history>>
    /\ UNCHANGED <<judge_vars, mcp_vars, ext_vars>>

state_execute_task(ctx) ==
    /\ context' = ctx
    /\ sm_call' = Returned("state_execute_task", current_state, "-")
    /\ returned_context' = ctx
    /\ UNCHANGED <<current_state, state_history>>
    /\ UNCHANGED <<judge_vars, mcp_vars, ext_vars>>

state_evaluate_result(ctx) ==
    /\ context' = ctx
    /\ sm_call' = Returned("state_evaluate_result", current_state, "-")
    /\ returned_context' = ctx
    /\ UNCHANGED <<current_state, state_history>>
    /\ UNCHANGED <<judge_vars, mcp_vars, ext_vars>>

transition_HistoryFirst(next_state, ctx) ==
    /\ Len(state_history) < MaxHistory
    /\ context' = ctx
    /\ state_history' = Append(state_history, current_state)
    /\ IF next_state \notin Range(transition_rules[current_state])
       THEN /\ sm_call' = RaisedValueError(current_state, next_state)
            /\ returned_context' = NoContext
            /\ UNCHANGED current_state
       ELSE /\ current_state' = next_state
            /\ sm_call' = Returned("transition", current_state, next_state)
            /\ returned_context' = ctx
    /\ UNCHANGED <<judge_vars, mcp_vars, ext_vars>>

transition_RecordsTarget(next_state, ctx) ==
    /\ context' = ctx
    /\ IF next_state \notin Range(transition_rules[current_state])
       THEN /\ sm_call' = RaisedValueError(current_state, next_state)
            /\ returned_context' = NoContext
            /\ UNCHANGED <<current_state, state_history>>
       ELSE /\ Len(state_history) < MaxHistory
            /\ state_history' = Append(state_history, next_state)
            /\ current_state' = next_state
            /\ sm_call' = Returned("transition", current_state, next_state)
            /\ returned_context' = ctx
    /\ UNCHANGED <<judge_vars, mcp_vars, ext_vars>>

transition_Unchecked(next_state, ctx) ==
    /\ Len(state_history) < MaxHistory
    /\ context' = ctx
    /\ state_history' = Append(state_history, current_state)
    /\ current_state' = next_state
    /\ sm_call' = Returned("transition", current_state, next_state)
    /\ returned_context' = ctx
    /\ UNCHANGED <<judge_vars, mcp_vars, ext_vars>>

transition(next_state, ctx) ==
    /\ context' = ctx
    /\ IF next_state \notin Range(transition_rules[current_state])
       THEN /\ sm_call' = RaisedValueError(current_state, next_state)
            /\ returned_context' = NoContext
            /\ UNCHANGED <<current_state, state_history>>
       ELSE /\ Len(state_history) < MaxHistory
            /\ state_history' = Append(state_history, current_state)
            /\ current_state' = next_state
            /\ sm_call' = Returned("transition", current_state, next_state)
            /\ returned_context' = ctx
    /\ UNCHANGED <<judge_vars, mcp_vars, ext_vars>>

StateInit == \E ctx \in Contexts : state_init(ctx)
StateExecuteTask == \E ctx \in Contexts : state_execute_task(ctx)
StateEvaluateResult == \E ctx \in Contexts : state_evaluate_result(ctx)
Transition == \E next_state \in RequestableStates, ctx \in Contexts : transition(next_state, ctx)

(* api/judge.py *)

ReviewIds == {"rev_1", "rev_2"}

\* raise HTTPException(status_code=501): nothing is resumed.
approve_review(review_id) ==
    /\ sm_call' = [op |-> "approve_review", from |-> current_state, requested |-> review_id,
                   raised |-> TRUE, message |-> NoMessage]
    /\ returned_context' = NoContext
    /\ UNCHANGED <<current_state, state_history, context>>
    /\ UNCHANGED <<judge_vars, mcp_vars, ext_vars>>

ApproveReview == \E review_id \in ReviewIds : approve_review(review_id)

InitStateMachine ==
    /\ current_state = INIT
    /\ state_history = <<>>
    /\ context = [task_queue |-> <<>>, current_result |-> "none", judge_result |-> NoJudgeResult,
                  retry_requested |-> FALSE]
    /\ returned_context = NoContext
    /\ sm_call = Returned("__init__", INIT, "-")

----------------------------------------------------------------------------
(* agents/judge.py *)

\* HITL thresholds set in JudgeAgent.__init__ (0.90 and 0.70)
auto_approve_threshold_Raised == 9000 + 1

auto_approve_threshold == 9000

auto_reject_threshold == 7000

\* Confidence values explored: every hundredth of [0,1] and the values next to
\* the two thresholds.
Confidences == {c * 100 : c \in 0..100} \cup {6990, 6999, 7001, 8999, 9001}

\* WorkerResult dicts handed to the Judge: task_id may be missing.
Contents ==
    [task_id : {"missing", "t1", "t2"}, status : {"success", "failure", "timeout"}]

Guidelines == {"missing", "empty", "brand_voice"}

\* content.get("task_id", "unknown")
GetTaskId(content) == IF content.task_id = "missing" THEN "unknown" ELSE content.task_id

NoDecision ==
    [task_id |-> "-", approved |-> FALSE, confidence |-> -1, requires_human_review |-> FALSE,
     quality_metrics |-> [format_correctness |-> -1, completeness |-> -1, relevance |-> -1],
     emitted |-> FALSE]

assess_content_Approving(content, guidelines) ==
    [task_id |-> GetTaskId(content), approved |-> TRUE, confidence |-> 0,
     requires_human_review |-> FALSE,
     quality_metrics |-> [format_correctness |-> 0, completeness |-> 0, relevance |-> 0],
     emitted |-> TRUE]

\* The returned ReviewDecision dict (reasoning, suggested_action and timestamp
\* are constants of the return statement and carry no state).
assess_content(content, guidelines) ==
    [task_id |-> GetTaskId(content), approved |-> FALSE, confidence |-> 0,
     requires_human_review |-> FALSE,
     quality_metrics |-> [format_correctness |-> 0, completeness |-> 0, relevance |-> 0],
     emitted |-> TRUE]

AssessContent ==
    \E content \in Contents, guidelines \in Guidelines :
        /\ decision' = assess_content(content, guidelines)
        /\ guidelines_given' = guidelines
        /\ UNCHANGED <<routed, calc, sm_vars, mcp_vars, ext_vars>>

\* HITL Routing Logic of the design (the three documented bands).
IsTier1(c) == c > auto_approve_threshold
IsTier2(c) == auto_reject_threshold <= c /\ c <= auto_approve_threshold
IsTier3(c) == c < auto_reject_threshold

Tiers(c) ==
    (IF IsTier1(c) THEN {"approve"} ELSE {})
    \cup (IF IsTier2(c) THEN {"review"} ELSE {})
    \cup (IF IsTier3(c) THEN {"reject"} ELSE {})

NoRouting == [confidence |-> -1, tiers |-> {}]

RouteConfidence ==
    \E c \in Confidences :
        /\ routed' = [confidence |-> c, tiers |-> Tiers(c)]
        /\ UNCHANGED <<decision, calc, guidelines_given, sm_vars, mcp_vars, ext_vars>>

\* Quality metric triples handed to calculate_confidence (0.0, 0.5, 1.0 per axis).
QualityMetrics ==
    [format_correctness : {0, 5000, 10000}, completeness : {0, 5000, 10000},
     relevance : {0, 5000, 10000}]

NoCalc ==
    [metrics |-> [format_correctness |-> -1, completeness |-> -1, relevance |-> -1],
     confidence |-> -1, called |-> FALSE]

\* return 0.0
calculate_confidence(quality_metrics) == 0

CalculateConfidence ==
    \E quality_metrics \in QualityMetrics :
        /\ calc' = [metrics |-> quality_metrics,
                    confidence |-> calculate_confidence(quality_metrics), called |-> TRUE]
        /\ UNCHANGED <<decision, routed, guidelines_given, sm_vars, mcp_vars, ext_vars>>

InitJudge ==
    /\ decision = NoDecision
    /\ routed = NoRouting
    /\ calc = NoCalc
    /\ guidelines_given = "-"

----------------------------------------------------------------------------
(* mcp/mcp_client.py *)

server_name == "tenxfeedbackanalytics"

max_retries == 3

backoff_seconds == 2

TransientErrors == {"timeout", "rate_limit", "server_unavailable"}
PermanentErrors == {"tool_not_found", "authentication", "validation"}

\* What one attempt against the MCP server would yield.
ToolOutcomes == {"ok"} \cup TransientErrors \cup PermanentErrors

\* The server's behaviour during one call: the outcome of each successive
\* attempt; only a transient failure can be followed by another attempt.
ToolScripts ==
    UNION { { sc \in [1..n -> ToolOutcomes] :
                \A i \in 1..(n-1) : sc[i] \in TransientErrors } : n \in 1..MaxScript }

ToolNames == {"tenx_log_action", "twitter_trends"}

NoTrace == [server |-> "-", tool |-> "-", trace_id |-> "-"]

\* attempts: attempts made against the server; waited: seconds slept between
\* attempts; previous_trace: the mcp_trace the call before this one returned.
NoMcpCall ==
    [tool |-> "-", script |-> <<>>, attempts |-> 0, waited |-> 0, previous_trace |-> NoTrace]

NoMcpResult ==
    [returned |-> FALSE, raised |-> "none", result |-> "-", retry_count |-> -1,
     mcp_trace |-> NoTrace]

call_tool_CountingAttempts(tool_name, script) ==
    [returned |-> TRUE, raised |-> "none", result |-> "None", retry_count |-> Len(script),
     mcp_trace |-> [server |-> server_name, tool |-> tool_name, trace_id |-> "stub_trace_id"]]

\* The dict call_tool returns; it makes no attempt against the server.
call_tool(tool_name, script) ==
    [returned |-> TRUE, raised |-> "none", result |-> "None", retry_count |-> 0,
     mcp_trace |-> [server |-> server_name, tool |-> tool_name, trace_id |-> "stub_trace_id"]]

CallTool ==
    \E tool_name \in ToolNames, script \in ToolScripts :
        /\ mcp_call' = [tool |-> tool_name, script |-> script, attempts |-> 0,
                        waited |-> 0, previous_trace |-> mcp_result.mcp_trace]
        /\ mcp_result' = call_tool(tool_name, script)
        /\ UNCHANGED <<retryable_errors, sm_vars, judge_vars, ext_vars>>

InitMCP ==
    /\ retryable_errors = {"timeout", "rate_limit", "server_unavailable", "network_error"}
    /\ mcp_call = NoMcpCall
    /\ mcp_result = NoMcpResult

----------------------------------------------------------------------------
(* persistence/persistence.py *)

Writers == {"w1", "w2"}

SessionIds == {"sess_a", "sess_b"}

\* GlobalState dicts a writer hands to save_session.
Sessions ==
    [session_id : SessionIds, version : 1..MaxVersion, status : {"planning", "executing"}]

NoSession == [session_id |-> "-", version |-> 0, status |-> "-"]

NoWriterCall == [got |-> "-", saved |-> NoSession, success |-> FALSE]

\* return None
get_session(session_id) == "None"

\* return True
save_session(session) == TRUE

GetSession ==
    \E w \in Writers, session_id \in SessionIds :
        /\ writers' = [writers EXCEPT ![w].got = get_session(session_id)]
        /\ UNCHANGED <<review_call, sm_vars, judge_vars, mcp_vars, planner_vars, worker_vars>>

SaveSession ==
    \E w \in Writers, session \in Sessions :
        /\ writers' = [writers EXCEPT ![w].saved = session,
                                      ![w].success = save_session(session)]
        /\ UNCHANGED <<review_call, sm_vars, judge_vars, mcp_vars, planner_vars, worker_vars>>

\* ReviewItem dicts handed to save_review: the id and the auto-reject deadline.
Reviews == [review_id : ReviewIds, expires_at : 1..(MaxClock - 1)]

\* None, as get_review returns it.
NoReview == [review_id |-> "None", expires_at |-> 0]

\* saved: the review last handed to save_review; asked, now, got: the id and
\* the clock reading of the last get_review call since then and what it returned.
NoReviewCall ==
    [saved |-> NoReview, success |-> FALSE, asked |-> "-", now |-> 0, got |-> NoReview]

\* return True
save_review(review) == TRUE

get_review_IgnoringExpiry(review_id, stored, now) ==
    IF stored.review_id = review_id THEN stored ELSE NoReview

\* return None, whatever was saved under review_id and whatever the time is
get_review(review_id, stored, now) == NoReview

SaveReview ==
    \E review \in Reviews :
        /\ review_call' = [NoReviewCall EXCEPT !.saved = review,
                                               !.success = save_review(review)]
        /\ UNCHANGED <<writers, sm_vars, judge_vars, mcp_vars, planner_vars, worker_vars>>

GetReview ==
    \E review_id \in ReviewIds, now \in 0..MaxClock :
        /\ review_call' = [review_call EXCEPT
                               !.asked = review_id, !.now = now,
                               !.got = get_review(review_id, review_call.saved, now)]
        /\ UNCHANGED <<writers, sm_vars, judge_vars, mcp_vars, planner_vars, worker_vars>>

InitPersistence ==
    /\ writers = [w \in Writers |-> NoWriterCall]
    /\ review_call = NoReviewCall

----------------------------------------------------------------------------
(* agents/planner.py *)

\* validate_plan documents a task count of 3-10; plans of the smallest valid
\* size and one below it are explored.
MinTasks == 3

Goals == {"Research trending AI topics", "vague"}

\* depends_on of a plan: for each task (by position) the set of tasks it depends on.
DependencyGraphs ==
    UNION { [1..n -> SUBSET (1..n)] : n \in (MinTasks - 1)..MinTasks }

NoPlanCall == [op |-> "-", goal |-> "-", depends_on |-> <<>>, tasks |-> <<>>, valid |-> FALSE]

\* The dict plan_tasks returns: "tasks": [] and "dependency_graph": {}.
plan_tasks(goal) ==
    [op |-> "plan_tasks", goal |-> goal, depends_on |-> <<>>, tasks |-> <<>>, valid |-> FALSE]

\* return True
validate_plan(depends_on) == TRUE

PlanTasks ==
    \E goal \in Goals :
        /\ plan_call' = plan_tasks(goal)
        /\ UNCHANGED <<sm_vars, judge_vars, mcp_vars, persistence_vars, worker_vars>>

ValidatePlan ==
    \E depends_on \in DependencyGraphs :
        /\ plan_call' = [op |-> "validate_plan", goal |-> "-", depends_on |-> depends_on,
                         tasks |-> [i \in 1..Len(depends_on) |-> i],
                         valid |-> validate_plan(depends_on)]
        /\ UNCHANGED <<sm_vars, judge_vars, mcp_vars, persistence_vars, worker_vars>>

InitPlanner == plan_call = NoPlanCall

----------------------------------------------------------------------------
(* agents/worker.py *)

\* Timeout range documented by validate_task (5-300 seconds).
MinTimeout == 5

MaxTimeout == 300

TaskTypes == {"mcp_call", "computation", "validation"}

\* Task dicts handed to the Worker: id and mcp_tool may be missing, the timeout
\* sits on and next to the limits of the documented range.
Tasks ==
    [id : {"missing", "t1"}, type : TaskTypes, mcp_tool : {"missing", "twitter_trends"},
     timeout : {MinTimeout - 1, MinTimeout, MaxTimeout, MaxTimeout + 1}]

NoTask == [id |-> "-", type |-> "-", mcp_tool |-> "-", timeout |-> 0]

NoWorkerResult ==
    [raised |-> "none", task_id |-> "-", status |-> "-", output |-> "None", error |-> "None",
     error_type |-> "None", dispatched |-> FALSE]

NoWorkerCall ==
    [op |-> "-", task |-> NoTask, server |-> "-", valid |-> FALSE, result |-> NoWorkerResult]

execute_task_Raising(task, server) ==
    [raised |-> IF server = "ok" THEN "none" ELSE server,
     task_id |-> IF task.id = "missing" THEN "unknown" ELSE task.id,
     status |-> "failure", output |-> "None",
     error |-> "Stub implementation - no execution performed",
     error_type |-> "NotImplementedError", dispatched |-> FALSE]

execute_task_WithOutput(task, server) ==
    [raised |-> "none",
     task_id |-> IF task.id = "missing" THEN "unknown" ELSE task.id,
     status |-> "failure", output |-> "partial",
     error |-> "Stub implementation - no execution performed",
     error_type |-> "NotImplementedError", dispatched |-> FALSE]

\* The WorkerResult dict execute_task returns; the MCP server (whose answer to
\* a call would be `server`) is never contacted.
execute_task(task, server) ==
    [raised |-> "none",
     task_id |-> IF task.id = "missing" THEN "unknown" ELSE task.id,
     status |-> "failure", output |-> "None",
     error |-> "Stub implementation - no execution performed",
     error_type |-> "NotImplementedError", dispatched |-> FALSE]

\* return True
validate_task(task) == TRUE

ExecuteTask ==
    \E task \in Tasks, server \in ToolOutcomes :
        /\ worker_call' = [op |-> "execute_task", task |-> task, server |-> server,
                           valid |-> FALSE, result |-> execute_task(task, server)]
        /\ UNCHANGED <<retry_policy, sm_vars, judge_vars, mcp_vars, persistence_vars, planner_vars>>

ValidateTask ==
    \E task \in Tasks :
        /\ worker_call' = [op |-> "validate_task", task |-> task, server |-> "-",
                           valid |-> validate_task(task), result |-> NoWorkerResult]
        /\ UNCHANGED <<retry_policy, sm_vars, judge_vars, mcp_vars, persistence_vars, planner_vars>>

InitWorker ==
    /\ retry_policy = [max_retries |-> 3, backoff_seconds |-> 2,
                       retry_on_errors |-> {"timeout", "rate_limit", "server_unavailable"}]
    /\ worker_call = NoWorkerCall

----------------------------------------------------------------------------
(* Specifications *)

Init ==
    /\ InitStateMachine /\ InitJudge /\ InitMCP
    /\ InitPersistence /\ InitPlanner /\ InitWorker

NextStateMachine ==
    StateInit \/ StateExecuteTask \/ StateEvaluateResult \/ Transition \/ ApproveReview

NextJudge == AssessContent \/ RouteConfidence \/ CalculateConfidence

NextMCP == CallTool

NextPersistence == GetSession \/ SaveSession \/ SaveReview \/ GetReview

NextPlanner == PlanTasks \/ ValidatePlan

NextWorker == ExecuteTask \/ ValidateTask

Next ==
    \/ NextStateMachine \/ NextJudge \/ NextMCP
    \/ NextPersistence \/ NextPlanner \/ NextWorker

Spec == Init /\ [][Next]_vars

SpecStateMachine == Init /\ [][NextStateMachine]_vars

SpecJudge == Init /\ [][NextJudge]_vars

SpecMCP == Init /\ [][NextMCP]_vars

SpecPersistence == Init /\ [][NextPersistence]_vars

SpecPlanner == Init /\ [][NextPlanner]_vars

SpecWorker == Init /\ [][NextWorker]_vars

----------------------------------------------------------------------------
(* Properties *)

AcceptedTransitionFrom(s) ==
    sm_call.op = "transition" /\ sm_call.from = s /\ ~sm_call.raised

\* C1: every ReviewDecision emitted by assess_content satisfies the three-tier
\* rule on its own fields: confidence > 0.90 gives approved and no human
\* review; 0.70 <= confidence <= 0.90 gives not approved and human review;
\* confidence < 0.70 gives not approved and no human review.
C1_DecisionObeysTierRule ==
    decision.emitted =>
        /\ decision.confidence > auto_approve_threshold =>
               decision.approved /\ ~decision.requires_human_review
        /\ (auto_reject_threshold <= decision.confidence
                /\ decision.confidence <= auto_approve_threshold) =>
               ~decision.approved /\ decision.requires_human_review
        /\ decision.confidence < auto_reject_threshold =>
               ~decision.approved /\ ~decision.requires_human_review

\* An emitted decision for a named task (the tier the code emits is Tier 3).
C1_Witness ==
    /\ decision.emitted
    /\ decision.task_id = "t1"
    /\ decision.confidence < auto_reject_threshold

\* C2: the tier function is total and mutually exclusive on [0,1]: every
\* confidence maps to exactly one of approve, review, reject; 0.70 and 0.90
\* give review, 0.9001 and 1.0 give approve, 0.699 and 0.0 give reject.
C2_TierTotalExclusive ==
    routed.confidence \in Confidences =>
        /\ Cardinality(routed.tiers) = 1
        /\ routed.tiers \subseteq {"approve", "review", "reject"}
        /\ routed.confidence \in {7000, 8999, 9000} => routed.tiers = {"review"}
        /\ routed.confidence \in {9001, 10000} => routed.tiers = {"approve"}
        /\ routed.confidence \in {0, 6990} => routed.tiers = {"reject"}

\* The upper boundary 0.90 has been routed, to review.
C2_Witness ==
    /\ routed.confidence = 9000
    /\ routed.tiers = {"review"}

\* C3: transition rejects a requested next state outside the allowed set of
\* the current state by raising an error naming the current state, the
\* requested state and the allowed set; it is never accepted.
C3_InvalidTransitionRaises ==
    (sm_call.op = "transition"
        /\ sm_call.requested \notin Range(transition_rules[sm_call.from])) =>
        /\ sm_call.raised
        /\ sm_call.message.current = sm_call.from
        /\ sm_call.message.requested = sm_call.requested
        /\ sm_call.message.allowed = transition_rules[sm_call.from]
        /\ current_state = sm_call.from

\* INIT -> EVALUATE_RESULT was requested and raised.
C3_Witness ==
    /\ sm_call.op = "transition"
    /\ sm_call.from = INIT
    /\ sm_call.requested = EVALUATE_RESULT
    /\ sm_call.raised

\* C4: requesting EVALUATE_RESULT -> INIT is rejected as invalid; the machine
\* never moves from EVALUATE_RESULT to INIT.
C4_EvaluateToInitRejected ==
    (sm_call.op = "transition" /\ sm_call.from = EVALUATE_RESULT /\ sm_call.requested = INIT) =>
        sm_call.raised /\ current_state = EVALUATE_RESULT

\* C5: with a Tier 2 verdict (requires_human_review) the machine leaves
\* EVALUATE_RESULT only for the AWAITING_REVIEW interrupt state; no further
\* task is executed until the review is resolved.
C5_Tier2GoesToAwaitingReview ==
    (AcceptedTransitionFrom(EVALUATE_RESULT) /\ context.judge_result.requires_human_review) =>
        current_state = AWAITING_REVIEW

\* C6: from EVALUATE_RESULT with a Tier 1 or Tier 3 verdict the next state is
\* EXECUTE_TASK exactly when the task queue is non-empty and COMPLETE exactly
\* when it is empty.
C6_AutoDispositionByQueue ==
    (AcceptedTransitionFrom(EVALUATE_RESULT)
        /\ context.judge_result.confidence >= 0
        /\ ~context.judge_result.requires_human_review) =>
        /\ current_state = EXECUTE_TASK <=> context.task_queue # <<>>
        /\ current_state = COMPLETE <=> context.task_queue = <<>>

\* C7: every WorkerResult produced in EXECUTE_TASK, whatever its status, leads
\* to EVALUATE_RESULT next.
C7_ResultGoesToEvaluate ==
    (AcceptedTransitionFrom(EXECUTE_TASK) /\ context.current_result # "none") =>
        current_state = EVALUATE_RESULT

\* C8: a tool failing with a transient error on its first two attempts and
\* succeeding on the third yields a successful result with retry_count = 2.
C8_TwoTransientThenSuccess ==
    (/\ Len(mcp_call.script) = 3
     /\ mcp_call.script[1] \in TransientErrors
     /\ mcp_call.script[2] \in TransientErrors
     /\ mcp_call.script[3] = "ok") =>
        /\ mcp_result.returned
        /\ mcp_result.raised = "none"
        /\ mcp_result.retry_count = 2

\* C9: a permanent error (authentication, tool_not_found, validation) is not
\* retried: the call fails after the first attempt with that error and retry
\* count 0.
C9_PermanentErrorFailsImmediately ==
    (Len(mcp_call.script) >= 1 /\ mcp_call.script[1] \in PermanentErrors) =>
        /\ ~mcp_result.returned
        /\ mcp_result.raised = mcp_call.script[1]
        /\ mcp_call.attempts = 1

\* C10: when every attempt fails with a transient error, call_tool stops after
\* max_retries retries and fails with the transient error kind of the last
\* attempt; it never returns a successful or degraded result.
C10_ExhaustedRetriesSurfaceError ==
    (/\ Len(mcp_call.script) = max_retries + 1
     /\ \A i \in 1..Len(mcp_call.script) : mcp_call.script[i] \in TransientErrors) =>
        /\ ~mcp_result.returned
        /\ mcp_result.raised = mcp_call.script[max_retries + 1]
        /\ mcp_call.attempts = max_retries + 1

\* C11: two concurrent writers that read the same session at the same version
\* and both call save_session: at most one commit succeeds, the second fails
\* with a version conflict.
C11_AtMostOneCommitPerVersion ==
    \A w1, w2 \in Writers :
        (/\ w1 # w2
         /\ writers[w1].saved # NoSession
         /\ writers[w1].saved.session_id = writers[w2].saved.session_id
         /\ writers[w1].saved.version = writers[w2].saved.version) =>
            ~(writers[w1].success /\ writers[w2].success)

WeightedConfidence(m) ==
    LET sum == (3 * m.format_correctness + 3 * m.completeness + 4 * m.relevance) \div 10
    IN IF sum < 0 THEN 0 ELSE IF sum > 10000 THEN 10000 ELSE sum

\* C12: the confidence is 0.3*format + 0.3*completeness + 0.4*relevance clamped
\* to [0,1], as the result of calculate_confidence and as the confidence of a
\* decision relative to its own quality_metrics; {1,1,1} gives 1.0 and {0,0,0}
\* gives 0.0.
C12_ConfidenceIsWeightedSum ==
    /\ calc.called => calc.confidence = WeightedConfidence(calc.metrics)
    /\ decision.emitted => decision.confidence = WeightedConfidence(decision.quality_metrics)

Edges(dep) == {<<a, b>> \in (1..Len(dep)) \X (1..Len(dep)) : b \in dep[a]}

RECURSIVE Closure(_, _)
Closure(R, k) ==
    IF k = 0 THEN R
    ELSE Closure(R \cup {<<p[1], q[2]>> : <<p, q>> \in {pq \in R \X R : pq[1][2] = pq[2][1]}}, k - 1)

\* A dependency cycle through at least two tasks.
HasCycle(dep) ==
    \E a, b \in 1..Len(dep) :
        a # b /\ <<a, b>> \in Closure(Edges(dep), Len(dep)) /\ <<b, a>> \in Closure(Edges(dep), Len(dep))

\* C13: a plan whose depends_on relation has a cycle of length >= 2 is rejected
\* by plan validation; a plan accepted as valid is acyclic.
C13_ValidPlanIsAcyclic ==
    (plan_call.op = "validate_plan" /\ plan_call.valid) => ~HasCycle(plan_call.depends_on)

\* C14: INIT -> EXECUTE_TASK is taken only with a non-empty task queue; with
\* an empty task queue the machine never enters EXECUTE_TASK.
C14_InitLeavesOnlyWithTasks ==
    (AcceptedTransitionFrom(INIT) /\ current_state = EXECUTE_TASK) =>
        context.task_queue # <<>>

\* C16: the transition to FAILED is allowed from every state: an unrecoverable
\* error moves the session to FAILED.
C16_FailedFromEveryState ==
    (sm_call.op = "transition" /\ sm_call.requested = FAILED) =>
        ~sm_call.raised /\ current_state = FAILED

Populated(field) == field # "None"

C18_ExactlyOneOfOutputError ==
    worker_call.op = "execute_task" =>
        /\ worker_call.result.status \in {"success", "failure", "timeout"}
        /\ (Populated(worker_call.result.output) /\ ~Populated(worker_call.result.error))
               <=> worker_call.result.status = "success"
        /\ (Populated(worker_call.result.error) /\ ~Populated(worker_call.result.output))
               <=> worker_call.result.status \in {"failure", "timeout"}

\* A failure result was returned for a named task, carrying an error and no output.
C18_Witness ==
    /\ worker_call.op = "execute_task"
    /\ worker_call.result.task_id = "t1"
    /\ worker_call.result.status = "failure"
    /\ Populated(worker_call.result.error)

ValidTask(task) ==
    /\ MinTimeout <= task.timeout /\ task.timeout <= MaxTimeout
    /\ task.type = "mcp_call" => task.mcp_tool # "missing"

\* C19: task validation rejects a Task whose timeout is outside [5, 300] or
\* that is a tool call with no tool name; such a Task is never dispatched.
C19_InvalidTaskRejected ==
    /\ (worker_call.op = "validate_task" /\ ~ValidTask(worker_call.task)) => ~worker_call.valid
    /\ (worker_call.op = "execute_task" /\ ~ValidTask(worker_call.task)) =>
           ~worker_call.result.dispatched

\* C15: when a human approves a pending review the session resumes: it goes to
\* EXECUTE_TASK if tasks remain and to COMPLETE if none remain; an approve
\* never leaves the session waiting for review.
C15_ApproveResumesSession ==
    (sm_call.op = "approve_review" /\ context.judge_result.requires_human_review) =>
        /\ ~sm_call.raised
        /\ current_state = EXECUTE_TASK <=> context.task_queue # <<>>
        /\ current_state = COMPLETE <=> context.task_queue = <<>>

\* C20: assess_content called with missing or empty guidelines yields an error
\* outcome, not a ReviewDecision computed from silently substituted defaults.
C20_MissingGuidelinesIsError ==
    guidelines_given \in {"missing", "empty"} => ~decision.emitted

\* C25: the self-transition EXECUTE_TASK -> EXECUTE_TASK is taken only when the
\* context carries an explicit task-level retry request.
C25_SelfLoopOnlyOnRetryRequest ==
    (AcceptedTransitionFrom(EXECUTE_TASK) /\ sm_call.requested = EXECUTE_TASK) =>
        context.retry_requested

\* C26: with an empty task queue the move EXECUTE_TASK -> INIT is accepted by
\* transition() and the machine is in INIT afterwards.
C26_EmptyQueueReturnsToInit ==
    (/\ sm_call.op = "transition"
     /\ sm_call.from = EXECUTE_TASK
     /\ sm_call.requested = INIT
     /\ context.task_queue = <<>>) =>
        /\ ~sm_call.raised
        /\ current_state = INIT

\* C27: executing a task consumes it: the context returned by
\* state_execute_task has the head of the task queue removed.
C27_ExecuteConsumesTask ==
    (sm_call.op = "state_execute_task" /\ context.task_queue # <<>>) =>
        returned_context.task_queue = Tail(context.task_queue)

\* C29: a transition() call that raises changes neither current_state nor
\* state_history.
C29_RejectedTransitionIsNoOp ==
    [][(sm_call'.op = "transition" /\ sm_call'.raised) =>
           /\ current_state' = current_state
           /\ state_history' = state_history]_vars

\* Two transitions were accepted and then EVALUATE_RESULT -> EVALUATE_RESULT
\* was rejected, leaving the two-entry history as it was.
C29_Witness ==
    /\ sm_call.op = "transition"
    /\ sm_call.raised
    /\ sm_call.from = EVALUATE_RESULT
    /\ sm_call.requested = EVALUATE_RESULT
    /\ current_state = EVALUATE_RESULT
    /\ state_history = <<INIT, EXECUTE_TASK>>

\* state_history read as a path: it starts at INIT and each entry is followed
\* by a state its rule allows, the last entry by current_state.
HistoryIsAllowedPath ==
    /\ state_history = <<>> => current_state = INIT
    /\ state_history # <<>> =>
           /\ state_history[1] = INIT
           /\ current_state \in Range(transition_rules[state_history[Len(state_history)]])
    /\ \A i \in 1..(Len(state_history) - 1) :
           state_history[i + 1] \in Range(transition_rules[state_history[i]])

\* C30: state_history is the sequence of states the machine was in before each
\* accepted transition: it grows by exactly the state left on every accepted
\* transition() and by nothing else, starts at INIT, and every consecutive
\* pair of it, and its last entry with current_state, is an allowed pair.
C30_HistoryRecordsAcceptedTransitions ==
    /\ []HistoryIsAllowedPath
    /\ [][IF sm_call'.op = "transition" /\ ~sm_call'.raised
           THEN state_history' = Append(state_history, current_state)
           ELSE state_history' = state_history]_vars

\* The machine went INIT -> EXECUTE_TASK -> EXECUTE_TASK -> EVALUATE_RESULT ->
\* INIT: four accepted transitions, four history entries.
C30_Witness ==
    /\ state_history = <<INIT, EXECUTE_TASK, EXECUTE_TASK, EVALUATE_RESULT>>
    /\ current_state = INIT

\* C21: every call_tool result carries a trace with the tool called, the
\* server identity and a trace id that differs from the trace id of the call
\* before it.
C21_TraceIdsAreUnique ==
    (mcp_result.returned /\ mcp_call.previous_trace # NoTrace) =>
        /\ mcp_result.mcp_trace.tool = mcp_call.tool
        /\ mcp_result.mcp_trace.server = server_name
        /\ mcp_result.mcp_trace.trace_id # mcp_call.previous_trace.trace_id

ErrorKinds ==
    TransientErrors \cup PermanentErrors \cup retryable_errors \cup retry_policy.retry_on_errors

\* C22: the retryable error kinds are exactly timeout, rate_limit and
\* server_unavailable, the same in the MCP client's retry configuration and
\* in the Worker's retry_policy; no kind is both retryable and permanent.
C22_RetryableKindsAgree ==
    \A kind \in ErrorKinds :
        /\ kind \in retryable_errors <=> kind \in TransientErrors
        /\ kind \in retry_policy.retry_on_errors <=> kind \in TransientErrors
        /\ ~(kind \in retryable_errors /\ kind \in PermanentErrors)

\* Retries performed: failed attempts that were followed by another attempt.
RetriesPerformed == IF mcp_call.attempts > 0 THEN mcp_call.attempts - 1 ELSE 0

Backoff(k) == backoff_seconds * (2 ^ k)

\* C24: a call that comes back after two transient failures has waited at
\* least Backoff(0) + Backoff(1) = 6 seconds in total.
C24_BackoffIsExponential ==
    (/\ mcp_result.returned
     /\ Len(mcp_call.script) = 3
     /\ mcp_call.script[1] \in TransientErrors
     /\ mcp_call.script[2] \in TransientErrors
     /\ mcp_call.script[3] = "ok") =>
        mcp_call.waited >= Backoff(0) + Backoff(1)

====
